---- MODULE Spec2Model ----
(***************************************************************************)
(* Seamless loop scroller of the commission gallery (src/commission.js,    *)
(* setupAutoScroll).  Pixel positions are JavaScript numbers; they are     *)
(* modelled as exact rationals <<n, d>> in lowest terms with d > 0, so     *)
(* floating-point rounding is not modelled.  container.scrollLeft keeps    *)
(* the value assigned to it (no clamping to the scrollable range).         *)
(* Time stamps are whole milliseconds.  One action is one run of one       *)
(* callback on the browser's single callback queue.                        *)
(*                                                                         *)
(* The page's other scripts have specifications of their own: the lightbox *)
(* of the project page (src/unnamed/part_001, SpecProject), the drag       *)
(* scroll of the bio strip (src/unnamed/part_003, SpecBio) and the mobile  *)
(* gate (src/unnamed/part_000, SpecGated).                                 *)
(***************************************************************************)
EXTENDS Integers, Sequences, FiniteSets, TLC

VARIABLES
    installed,      \* setupAutoScroll has run: listeners and tick loop exist
    setWidth,       \* let setWidth   (commission.js:199)
    savedPos,       \* let savedPos   (commission.js:200), a rational
    autoWrite,      \* let autoWrite  (commission.js:201)
    paused,         \* let paused     (commission.js:198)
    lastTs,         \* let lastTs     (commission.js:202)
    persistTimer,   \* let persistTimer (commission.js:203): TRUE = it holds a handle
    timeouts,       \* number of timeouts set by setTimeout and neither expired nor cleared
    scrollLeft,     \* container.scrollLeft, a rational
    pendingScroll,  \* scroll event queued on the container: "none", "auto", "user"
    storage,        \* localStorage item 'commissionScrollPos'
    storageOk,      \* localStorage calls succeed (FALSE: they throw, e.g. blocked storage)
    rafPending,     \* number of requested animation frames not yet run
    now,            \* time stamp of the latest animation frame, ms
    lastOp,         \* the callback that ran last: its kind, the prevWidth it
                    \* read (resize), whether it cleared a pending timeout
                    \* and whether an exception escaped from it
    armedAt,        \* time at which the pending timeout was armed, ms
    burst,          \* scroll events handled since the timer slot was last armed from empty
    writes,         \* timeouts expired since then
    rendered,       \* renderHorizontalScroll has run
    total,          \* renderHorizontalScroll: const total (commission.js:133)
    imgs,           \* the middle band's images, each "complete" (found complete by
                    \* the render), "loading", "loaded" or "failed"
    loaded,         \* renderHorizontalScroll: let loaded (commission.js:132)
    setupCalls,     \* number of invocations of setupAutoScroll by the render
    fn,             \* the function applied last: "none", "offset", "band"
    arg,            \* the argument it is applied to, a rational
    result,         \* the value it returned
    storedAtSetup,  \* the localStorage item as it was when setupAutoScroll ran
    widthSeen,      \* setWidth has held a positive width since setupAutoScroll ran
    overlayHidden,  \* gate: overlay.classList contains "hidden"
    gateExpanded,   \* gate: overlay.classList contains "gate-expanded"
    mobileish,      \* gate: what isMobileish() returns now
    resizeTimer,    \* gate: let resizeTimer holds a timeout not yet expired (part_000:36)
    gateResizes,    \* gate: resize events since the device was last checked
    gateOp,         \* gate: the callback that ran last and, for a device check,
                    \* what it found and the overlay's classes before it
    images,         \* project page: let images (part_001:24), the sources as numbers 1..n
    currentImageIndex,  \* project page: let currentImageIndex (part_001:25), from 0
    lightboxHidden, \* #lightbox has class "hidden"
    viewingInfo,    \* lightbox.dataset.viewingInfo is 'true'
    lightboxSrc,    \* src of #lightbox-image: nothing yet, the info image or a gallery image
    navDisplayNone, \* .lightbox-nav has style display: none
    prevBtnHidden,  \* .btn-prev has class "lightbox-btn--hidden"
    nextBtnHidden,  \* .btn-next has class "lightbox-btn--hidden"
    infoInteractive,    \* setupInfoLightbox has put its click listener on the info image
    lightboxCall,   \* the lightbox function that ran last and its argument
    pointerDown,    \* bio strip: let pointerDown (part_003:251)
    pointerId,      \* bio strip: let pointerId (part_003:252), 0 for null
    startX,         \* bio strip: let startX (part_003:253)
    startScrollLeft,    \* bio strip: let startScrollLeft (part_003:254)
    dragged,        \* bio strip: let dragged (part_003:255)
    suppressClick,  \* bio strip: let suppressClick (part_003:256)
    bioScrollLeft,  \* bio strip: container.scrollLeft
    bioClasses,     \* bio strip: which of is-grabbing, is-dragging the container has
    pointers,       \* each pointer: pressed or not, by touch or the primary button
                    \* or not, where it was pressed, whether it has since been
                    \* more than dragThreshold away from there
    endedGesture,   \* the gesture (a press by touch or the primary button, up to
                    \* its release) that ended last: "none", "still" or "moved"
    clickedSince,   \* a click has been dispatched since that gesture ended
    lastEvent       \* the event dispatched last and whether its listener suppressed it

vars == <<installed, setWidth, savedPos, autoWrite, paused, lastTs, persistTimer,
          timeouts, scrollLeft, pendingScroll, storage, storageOk, rafPending, now,
          lastOp, armedAt, burst, writes, rendered, total, imgs, loaded, setupCalls, fn, arg, result,
          storedAtSetup, widthSeen, overlayHidden, gateExpanded, mobileish, resizeTimer,
          gateResizes, gateOp,
          images, currentImageIndex, lightboxHidden, viewingInfo, lightboxSrc,
          navDisplayNone, prevBtnHidden, nextBtnHidden, infoInteractive, lightboxCall,
          pointerDown, pointerId, startX, startScrollLeft, dragged, suppressClick,
          bioScrollLeft, bioClasses, pointers, endedGesture, clickedSince, lastEvent>>

----------------------------------------------------------------------------
(* Bounds *)

MaxWidth == 2       \* offsetWidth of the middle band ranges over 0..MaxWidth
MaxDen == 2         \* positions are explored up to this denominator
MaxTs == 100        \* animation frames are explored up to this time stamp
MaxClock == 250     \* the same, where the persist timeouts are timed
MaxBurst == 2       \* scroll events handled while one timeout is pending
MaxLoopTs == 150    \* time stamp at which the endless frame loop shifts its time origin
MaxImages == 4      \* images in the middle band
MaxPauseTs == 200   \* frames are explored up to this time stamp where the pointer pauses
MaxGallery == 3     \* images of a project's gallery
MaxPointers == 2    \* pointers that can be down at a time
MaxBioScroll == 8   \* the bio strip's largest scrollLeft
MaxResizes == 6     \* resize events within one debounce of the gate
MaxNum == 7         \* arguments of the normalisations are n/d with |n| <= MaxNum

Widths == 0 .. MaxWidth
PointerIds == 1 .. MaxPointers
FrameDeltas == {50}    \* ms between two animation frames (1.5 px at 30 px/s)
PauseDeltas == {50, 100}   \* the same, where the pointer pauses

(* Program constants *)
speedPxPerSecond == 30
persistDelayMs == 200
dragThreshold == 6

ClientXs == {0, dragThreshold, dragThreshold + 1}   \* clientX of the pointer events

----------------------------------------------------------------------------
(* Exact arithmetic on JavaScript numbers *)

Abs(x) == IF x < 0 THEN -x ELSE x

RECURSIVE GCD(_, _)
GCD(a, b) == IF b = 0 THEN a ELSE GCD(b, a % b)

Rat(n, d) == LET g == GCD(Abs(n), d) IN <<n \div g, d \div g>>
R(i) == <<i, 1>>
\* RAdd and JsRem bind their arguments as the element of a one-element set,
\* so that a nested argument is evaluated once.
RAdd(a, b) ==
    CHOOSE r \in {Rat(p[1][1] * p[2][2] + p[2][1] * p[1][2], p[1][2] * p[2][2]) :
                    p \in {<<a, b>>}} : TRUE
RSub(a, b) == Rat(a[1] * b[2] - b[1] * a[2], a[2] * b[2])
RMul(a, b) == Rat(a[1] * b[1], a[2] * b[2])
RDivInt(a, k) == Rat(a[1], a[2] * k)
RLess(a, b) == a[1] * b[2] < b[1] * a[2]
RLeq(a, b) == a[1] * b[2] <= b[1] * a[2]
RAbs(a) == <<Abs(a[1]), a[2]>>

\* JavaScript a % w for an integer w > 0: the result has the sign of a.
JsRem(a, w) ==
    CHOOSE r \in {IF p[1][1] >= 0
                  THEN Rat(p[1][1] % (p[2] * p[1][2]), p[1][2])
                  ELSE Rat(-((-p[1][1]) % (p[2] * p[1][2])), p[1][2]) :
                    p \in {<<a, w>>}} : TRUE

----------------------------------------------------------------------------
(* Pure helpers of setupAutoScroll; the closure variable setWidth is the   *)
(* explicit parameter w.                                                   *)

\* variant: a single remainder, negative for negative values
normalizeOffset_SingleRem(value, w) ==
    IF w <= 0 THEN R(0)
    ELSE JsRem(value, w)

normalizeOffset(value, w) ==
    IF w <= 0 THEN R(0)
    ELSE JsRem(RAdd(JsRem(value, w), R(w)), w)

\* variant: the band origin is not added
normalizeToMiddleBand_NoOrigin(value, w) ==
    IF w <= 0 THEN R(0)
    ELSE normalizeOffset(RSub(value, R(w)), w)

normalizeToMiddleBand(value, w) ==
    IF w <= 0 THEN R(0)
    ELSE RAdd(R(w), normalizeOffset(RSub(value, R(w)), w))

\* String(savedPos), the value handed to localStorage.setItem
String(x) == [kind |-> "num", val |-> x]

\* Number(stored): null gives 0, a numeric string its value, "Infinity"
\* infinity and any other text NaN.
Number(stored) ==
    CASE stored.kind = "null" -> [finite |-> TRUE, val |-> R(0)]
      [] stored.kind = "num"  -> [finite |-> TRUE, val |-> stored.val]
      [] stored.kind = "inf"  -> [finite |-> FALSE, val |-> R(0)]
      [] OTHER                -> [finite |-> FALSE, val |-> R(0)]

NoItem == [kind |-> "null", val |-> R(0)]
StoredBefore ==
    {NoItem, [kind |-> "text", val |-> R(0)], String(<<5, 2>>), String(R(-1))}

\* Effect of container.scrollLeft = value inside setScrollSafely.  The
\* assignment fires a scroll event only when the position changes; q says
\* whether that event is queued for the next rendering update (autoWrite is
\* false again when it is delivered) or is dispatched inside the assignment,
\* where the listener sees autoWrite = true and returns.
setScrollSafely(value, q, pending) ==
    [left |-> value,
     pending |-> IF value # scrollLeft /\ q /\ pending = "none" THEN "auto" ELSE pending]

\* variant: the offset written without the band origin
bandPosition_NoBand(w, pos) == pos

\* the position written by setup, tick and resize: setWidth + savedPos
bandPosition(w, pos) == RAdd(R(w), pos)

\* variant: the restored offset is not normalised
restoreOffset_Raw(item, ok, w) ==
    LET parsed == Number(item)
    IN  IF ok /\ parsed.finite THEN parsed.val ELSE R(0)

\* variant: a throwing read is treated as a successful one
restoreOffset_IgnoresFailure(item, ok, w) ==
    LET parsed == Number(item)
        restored == IF parsed.finite THEN parsed.val ELSE R(0)
    IN  normalizeOffset(restored, w)

\* setup: the offset read back from storage (0 when the read throws or the
\* item is not a finite number), normalised
restoreOffset(item, ok, w) ==
    LET parsed == Number(item)
        restored == IF ok /\ parsed.finite THEN parsed.val ELSE R(0)
    IN  normalizeOffset(restored, w)

\* variant: the advance ignores the paused flag
shouldAdvance_IgnoresPause(p, w) == w > 0

\* tick: the guard of the advance
shouldAdvance(p, w) == ~p /\ w > 0

\* variant: the advanced offset is not wrapped
advanceOffset_NoWrap(pos, deltaSeconds, w) ==
    RAdd(pos, RMul(R(speedPxPerSecond), deltaSeconds))

\* tick: the offset after deltaSeconds at speedPxPerSecond
advanceOffset(pos, deltaSeconds, w) ==
    normalizeOffset(RAdd(pos, RMul(R(speedPxPerSecond), deltaSeconds)), w)

\* variant: the ratio is inverted (prev / w)
rescaleOffset_Inverted(pos, prev, w) ==
    LET scaled == IF prev > 0
                  THEN RDivInt(RMul(pos, R(prev)), w)
                  ELSE pos
    IN  normalizeOffset(scaled, w)

\* resize: the offset rescaled from width prev to w and normalised
rescaleOffset(pos, prev, w) ==
    LET scaled == IF prev > 0
                  THEN RMul(RDivInt(pos, prev), R(w))
                  ELSE pos
    IN  normalizeOffset(scaled, w)

\* variant: the listener's guard ignores the width
listenerSkips_IgnoresWidth(aw, w) == aw

\* scroll listener: the guard of its early return (autoWrite || setWidth <= 0)
listenerSkips(aw, w) == aw \/ w <= 0

\* syncFromCurrentScroll: whether it re-centres, the position it leaves in
\* container.scrollLeft and the new savedPos; nothing when setWidth <= 0
syncFromCurrentScroll(left, pos, w) ==
    IF w <= 0
    THEN [recentre |-> FALSE, left |-> left, pos |-> pos]
    ELSE CHOOSE sync \in
           {LET recentre == RLess(R(1), RAbs(RSub(normalized, left)))
            IN  [recentre |-> recentre,
                 left |-> IF recentre THEN normalized ELSE left,
                 pos |-> normalizeOffset(RSub(normalized, R(w)), w)] :
              normalized \in {normalizeToMiddleBand(left, w)}} : TRUE

\* variant: the write lets the exception of setItem escape
persistPosition_NoCatch(item, pos, ok) ==
    [item |-> IF ok THEN String(pos) ELSE item, threw |-> ~ok]

\* persistPosition(): the item after localStorage.setItem, which throws when
\* storage is unavailable; the exception is caught and dropped
persistPosition(item, pos, ok) ==
    [item |-> IF ok THEN String(pos) ELSE item, threw |-> FALSE]

\* variant: a new timeout is armed without clearing the pending one
schedulePersist_NoClear(handle, n) == [handle |-> TRUE, n |-> n + 1]

\* schedulePersist(): clearTimeout of the pending timeout if persistTimer
\* holds one, then setTimeout; n counts the outstanding timeouts
schedulePersist(handle, n) ==
    [handle |-> TRUE, n |-> (IF handle THEN n - 1 ELSE n) + 1]

\* the hide listeners' if (persistTimer) { clearTimeout; persistTimer = null }
clearPersistTimer(handle, n) ==
    [handle |-> FALSE, n |-> IF handle THEN n - 1 ELSE n]

\* setTimeout(..., persistDelayMs) at time t: the earliest time of expiry
persistDeadline(t) == t + persistDelayMs

\* variant: the frame request is dropped
requestAnimationFrame_Dropped(pending) == pending

\* requestAnimationFrame(tick): one more callback pending
requestAnimationFrame(pending) == pending + 1

\* variant: the baseline is kept while the advance is suspended
newBaseline_KeptWhilePaused(p, last, ts) == IF p /\ last # 0 THEN last ELSE ts

\* tick: lastTs = ts, whatever the paused flag
newBaseline(p, last, ts) == ts

\* tick: deltaSeconds, with the first frame taking ts as its own baseline
elapsedSeconds(last, ts) == Rat(ts - (IF last = 0 THEN ts ELSE last), 1000)

Fits(x) == x[2] <= MaxDen

\* the record of a callback of kind k
Op(k) == [op |-> k, prevWidth |-> 0, cleared |-> FALSE, threw |-> FALSE]

----------------------------------------------------------------------------
\* the scroller's own variables, and those of the debounce clock, of the
\* gallery render and of the function applications
scroller == <<installed, setWidth, savedPos, autoWrite, paused, lastTs, persistTimer,
              timeouts, scrollLeft, pendingScroll, storage, storageOk, rafPending,
              now, lastOp>>
timing == <<armedAt, burst, writes>>
gallery == <<rendered, total, imgs, loaded, setupCalls>>
applied == <<fn, arg, result>>
startup == <<storedAtSetup, widthSeen>>
\* the state of the page's other scripts
gate == <<overlayHidden, gateExpanded, mobileish, resizeTimer, gateResizes, gateOp>>
lightbox == <<images, currentImageIndex, lightboxHidden, viewingInfo, lightboxSrc,
              navDisplayNone, prevBtnHidden, nextBtnHidden, infoInteractive, lightboxCall>>
bioClosure == <<pointerDown, pointerId, startX, startScrollLeft, dragged, suppressClick,
                bioScrollLeft, bioClasses>>
bioHistory == <<pointers, endedGesture, clickedSince, lastEvent>>
drag == <<bioClosure, bioHistory>>
page == <<gate, lightbox, drag>>

\* the closure's variables before setupAutoScroll, with setWidth = w
InitScrollerAt(w) ==
    /\ installed = FALSE
    /\ setWidth = w
    /\ savedPos = R(0)
    /\ autoWrite = FALSE
    /\ paused = FALSE
    /\ lastTs = 0
    /\ persistTimer = FALSE
    /\ timeouts = 0
    /\ scrollLeft = R(0)
    /\ pendingScroll = "none"
    /\ rafPending = 0
    /\ now = 0
    /\ lastOp = Op("none")

InitScroller == InitScrollerAt(0)

InitTiming == armedAt = 0 /\ burst = 0 /\ writes = 0
InitGallery ==
    rendered = FALSE /\ total = 0 /\ imgs = <<>> /\ loaded = 0 /\ setupCalls = 0
InitApplied == fn = "none" /\ arg = R(0) /\ result = R(0)
InitStartup == storedAtSetup = NoItem /\ widthSeen = FALSE
GateOp(op) == [op |-> op, found |-> FALSE, wasHidden |-> FALSE, wasExpanded |-> FALSE]
\* update() has run, first: as the script's initial check
Checked(first, m, hidden, expanded) ==
    [op |-> IF first THEN "initial check" ELSE "check",
     found |-> m, wasHidden |-> hidden, wasExpanded |-> expanded]

\* variant: a device that is not mobile hides the overlay and leaves it expanded
update_KeepsExpanded(m, hidden, expanded) == [hidden |-> ~m, expanded |-> expanded]

\* update(): the overlay's classes after the check, m being isMobileish()
update(m, hidden, expanded) == [hidden |-> ~m, expanded |-> m /\ expanded]

\* gate.js has run on a device for which isMobileish() is m, the overlay
\* having the classes (hidden, expanded) in the page's markup
InitGateOn(m, hidden, expanded) ==
    /\ mobileish = m
    /\ overlayHidden = update(m, hidden, expanded).hidden
    /\ gateExpanded = update(m, hidden, expanded).expanded
    /\ resizeTimer = FALSE
    /\ gateResizes = 0
    /\ gateOp = Checked(TRUE, m, hidden, expanded)

InitGate == InitGateOn(FALSE, TRUE, FALSE)
\* images[i] of the code is images[i + 1] here
Src(kind, n) == [kind |-> kind, n |-> n]
Call(f, a) == [fn |-> f, arg |-> a]
\* the project page when loadProject has filled images with n sources and
\* setupEventListeners has run; the lightbox is hidden as closeLightbox leaves it
InitLightboxWith(n) ==
    /\ images = [k \in 1 .. n |-> k]
    /\ currentImageIndex = 0
    /\ lightboxHidden = TRUE
    /\ viewingInfo = FALSE
    /\ lightboxSrc = Src("none", 0)
    /\ navDisplayNone = FALSE
    /\ prevBtnHidden = FALSE
    /\ nextBtnHidden = FALSE
    /\ infoInteractive = FALSE
    /\ lightboxCall = Call("none", 0)
InitLightbox == InitLightboxWith(1)
Released == [pressed |-> FALSE, primary |-> FALSE, at |-> 0, moved |-> FALSE]
Event(type) == [type |-> type, prevented |-> FALSE]
\* the closure of setupBioDragScroll as it is created, nothing pressed yet
InitDrag ==
    /\ pointerDown = FALSE
    /\ pointerId = 0
    /\ startX = 0
    /\ startScrollLeft = 0
    /\ dragged = FALSE
    /\ suppressClick = FALSE
    /\ bioScrollLeft = 0
    /\ bioClasses = {}
    /\ pointers = [id \in PointerIds |-> Released]
    /\ endedGesture = "none"
    /\ clickedSince = FALSE
    /\ lastEvent = Event("none")
InitPage == InitGate /\ InitLightbox /\ InitDrag

\* Before setup.  Where every localStorage call throws, the stored item is
\* never read or replaced, and one item stands for all.
Init ==
    /\ InitScroller
    /\ storageOk \in BOOLEAN
    /\ storage \in IF storageOk THEN StoredBefore ELSE {String(<<5, 2>>)}
    /\ InitTiming
    /\ InitGallery
    /\ InitApplied
    /\ InitStartup
    /\ InitPage

\* setupAutoScroll(referenceSet), w = referenceSet.offsetWidth
setupAutoScroll(w, q) ==
    /\ ~installed
    /\ LET pos == restoreOffset(storage, storageOk, w)
           wr == setScrollSafely(bandPosition(w, pos), q, pendingScroll)
       IN  /\ setWidth' = w
           /\ savedPos' = pos
           /\ IF w > 0
              THEN /\ scrollLeft' = wr.left
                   /\ pendingScroll' = wr.pending
              ELSE UNCHANGED <<scrollLeft, pendingScroll>>
    /\ installed' = TRUE
    /\ rafPending' = requestAnimationFrame(rafPending)
    /\ lastOp' = Op("setup")
    /\ UNCHANGED <<autoWrite, paused, lastTs, persistTimer, timeouts, storage, storageOk, now>>

\* tick(ts), the requestAnimationFrame callback run at time stamp ts when
\* lastTs holds last
tickFrom(last, ts, q) ==
    /\ installed
    /\ rafPending > 0
    /\ \E pos \in {advanceOffset(savedPos, elapsedSeconds(last, ts), setWidth)} :
       LET wr == setScrollSafely(bandPosition(setWidth, pos), q, pendingScroll)
       IN  /\ now' = ts
           /\ lastTs' = newBaseline(paused, last, ts)
           /\ IF shouldAdvance(paused, setWidth)
              THEN /\ Fits(pos)
                   /\ savedPos' = pos
                   /\ scrollLeft' = wr.left
                   /\ pendingScroll' = wr.pending
              ELSE UNCHANGED <<savedPos, scrollLeft, pendingScroll>>
    /\ rafPending' = requestAnimationFrame(rafPending - 1)
    /\ lastOp' = Op("tick")
    /\ UNCHANGED <<installed, setWidth, autoWrite, paused, persistTimer, timeouts, storage, storageOk>>

tickAt(ts, q) == tickFrom(lastTs, ts, q)

\* a frame d milliseconds after the previous one, up to time MaxTs
tick(d, q) ==
    /\ now + d <= MaxTs
    /\ tickAt(now + d, q)

\* container 'mouseenter' / 'mouseleave' listeners
mouseenter ==
    /\ installed
    /\ paused' = TRUE
    /\ lastOp' = Op("other")
    /\ UNCHANGED <<installed, setWidth, savedPos, autoWrite, lastTs, persistTimer, timeouts,
                   scrollLeft, pendingScroll, storage, storageOk, rafPending, now>>

mouseleave ==
    /\ installed
    /\ paused' = FALSE
    /\ lastOp' = Op("other")
    /\ UNCHANGED <<installed, setWidth, savedPos, autoWrite, lastTs, persistTimer, timeouts,
                   scrollLeft, pendingScroll, storage, storageOk, rafPending, now>>

\* positions the user can reach in a track of three bands
UserPositions == 0 .. (3 * setWidth - 1)

\* The user moves the container (wheel, drag, keyboard) to position p; the
\* browser queues a scroll event for the container.
UserScroll(p) ==
    /\ installed
    /\ R(p) # scrollLeft
    /\ scrollLeft' = R(p)
    /\ pendingScroll' = "user"
    /\ lastOp' = Op("other")
    /\ UNCHANGED <<installed, setWidth, savedPos, autoWrite, paused, lastTs, persistTimer, timeouts,
                   storage, storageOk, rafPending, now>>

\* container 'scroll' listener: syncFromCurrentScroll, then schedulePersist
scrollListener(q) ==
    /\ installed
    /\ pendingScroll # "none"
    /\ IF listenerSkips(autoWrite, setWidth)
       THEN /\ pendingScroll' = "none"
            /\ UNCHANGED <<savedPos, scrollLeft, persistTimer, timeouts>>
       ELSE \E sync \in {syncFromCurrentScroll(scrollLeft, savedPos, setWidth)} :
            LET wr == setScrollSafely(sync.left, q, "none")
                armed == schedulePersist(persistTimer, timeouts)
            IN  /\ IF sync.recentre
                   THEN /\ scrollLeft' = wr.left
                        /\ pendingScroll' = wr.pending
                   ELSE /\ pendingScroll' = "none"
                        /\ UNCHANGED scrollLeft
                /\ savedPos' = sync.pos
                /\ persistTimer' = armed.handle
                /\ timeouts' = armed.n
    /\ lastOp' = [Op("scroll") EXCEPT
                     !.cleared = persistTimer /\ ~listenerSkips(autoWrite, setWidth)]
    /\ UNCHANGED <<installed, setWidth, autoWrite, paused, lastTs,
                   storage, storageOk, rafPending, now>>

\* window 'resize' listener, w = referenceSet.offsetWidth after the reflow
resizeListener(w, q) ==
    /\ installed
    /\ setWidth' = w
    /\ IF w <= 0
       THEN UNCHANGED <<savedPos, scrollLeft, pendingScroll>>
       ELSE LET pos == rescaleOffset(savedPos, setWidth, w)
                wr == setScrollSafely(bandPosition(w, pos), q, pendingScroll)
            IN  /\ Fits(pos)
                /\ savedPos' = pos
                /\ scrollLeft' = wr.left
                /\ pendingScroll' = wr.pending
    /\ lastOp' = [Op("resize") EXCEPT !.prevWidth = setWidth]
    /\ UNCHANGED <<installed, autoWrite, paused, lastTs, persistTimer, timeouts,
                   storage, storageOk, rafPending, now>>

\* a timeout armed by schedulePersist expires: persistTimer = null, then
\* persistPosition()
persistTimeout ==
    /\ installed
    /\ timeouts > 0
    /\ LET write == persistPosition(storage, savedPos, storageOk)
       IN  /\ persistTimer' = FALSE
           /\ timeouts' = timeouts - 1
           /\ storage' = write.item
           /\ lastOp' = [Op("timer") EXCEPT !.threw = write.threw]
    /\ UNCHANGED <<installed, setWidth, savedPos, autoWrite, paused, lastTs,
                   scrollLeft, pendingScroll, storageOk, rafPending, now>>

\* variant: the flush writes only when a timeout was pending
pagehideListener_OnlyIfPending ==
    /\ installed
    /\ LET slot == clearPersistTimer(persistTimer, timeouts)
           write == persistPosition(storage, savedPos, storageOk)
       IN  /\ persistTimer' = slot.handle
           /\ timeouts' = slot.n
           /\ storage' = IF persistTimer THEN write.item ELSE storage
           /\ lastOp' = [Op("hide") EXCEPT !.cleared = persistTimer,
                                           !.threw = write.threw]
    /\ UNCHANGED <<installed, setWidth, savedPos, autoWrite, paused, lastTs,
                   scrollLeft, pendingScroll, storageOk, rafPending, now>>

\* window 'pagehide' listener
pagehideListener ==
    /\ installed
    /\ LET slot == clearPersistTimer(persistTimer, timeouts)
           write == persistPosition(storage, savedPos, storageOk)
       IN  /\ persistTimer' = slot.handle
           /\ timeouts' = slot.n
           /\ storage' = write.item
           /\ lastOp' = [Op("hide") EXCEPT !.cleared = persistTimer,
                                           !.threw = write.threw]
    /\ UNCHANGED <<installed, setWidth, savedPos, autoWrite, paused, lastTs,
                   scrollLeft, pendingScroll, storageOk, rafPending, now>>

\* document 'visibilitychange' listener, v = document.visibilityState
visibilitychangeListener(v) ==
    /\ installed
    /\ IF v = "hidden"
       THEN LET slot == clearPersistTimer(persistTimer, timeouts)
                write == persistPosition(storage, savedPos, storageOk)
            IN  /\ persistTimer' = slot.handle
                /\ timeouts' = slot.n
                /\ storage' = write.item
                /\ lastOp' = [Op("hide") EXCEPT !.cleared = persistTimer,
                                                !.threw = write.threw]
       ELSE /\ UNCHANGED <<persistTimer, timeouts, storage>>
            /\ lastOp' = Op("other")
    /\ UNCHANGED <<installed, setWidth, savedPos, autoWrite, paused, lastTs,
                   scrollLeft, pendingScroll, storageOk, rafPending, now>>

\* the scroller's callbacks in any order, timeouts expiring at any time
Next ==
    \/ /\ \E w \in Widths, q \in BOOLEAN : setupAutoScroll(w, q)
       /\ UNCHANGED <<timing, gallery, applied, startup, page>>
    \/ /\ \E d \in FrameDeltas, q \in BOOLEAN : tick(d, q)
       /\ UNCHANGED <<timing, gallery, applied, startup, page>>
    \/ /\ mouseenter
       /\ UNCHANGED <<timing, gallery, applied, startup, page>>
    \/ /\ mouseleave
       /\ UNCHANGED <<timing, gallery, applied, startup, page>>
    \/ /\ \E p \in UserPositions : UserScroll(p)
       /\ UNCHANGED <<timing, gallery, applied, startup, page>>
    \/ /\ \E q \in BOOLEAN : scrollListener(q)
       /\ UNCHANGED <<timing, gallery, applied, startup, page>>
    \/ /\ \E w \in Widths, q \in BOOLEAN : resizeListener(w, q)
       /\ UNCHANGED <<timing, gallery, applied, startup, page>>
    \/ /\ persistTimeout
       /\ UNCHANGED <<timing, gallery, applied, startup, page>>
    \/ /\ pagehideListener
       /\ UNCHANGED <<timing, gallery, applied, startup, page>>
    \/ /\ \E v \in {"hidden", "visible"} : visibilitychangeListener(v)
       /\ UNCHANGED <<timing, gallery, applied, startup, page>>

Spec == Init /\ [][Next]_vars

----------------------------------------------------------------------------
(* The debounced write, with time: a timeout armed at time t expires no     *)
(* earlier than persistDeadline(t).  Time is the frames' time stamp.        *)

InitDebounce ==
    /\ InitScroller
    /\ storage = NoItem
    /\ storageOk = TRUE
    /\ InitTiming
    /\ InitGallery
    /\ InitApplied
    /\ InitStartup
    /\ InitPage

\* A frame d milliseconds after the previous one.  Only differences of times
\* matter, so a frame that would pass MaxClock moves the origin of time by d
\* instead: it runs at time stamp now with lastTs and armedAt moved back by
\* d, a deadline that has passed staying passed.
frame(d, q) ==
    IF now + d <= MaxClock
    THEN /\ tickFrom(lastTs, now + d, q)
         /\ UNCHANGED timing
    ELSE /\ tickFrom(lastTs - d, now, q)
         /\ armedAt' = IF armedAt - d >= now - persistDelayMs
                       THEN armedAt - d ELSE now - persistDelayMs
         /\ UNCHANGED <<burst, writes>>

\* the scroll listener at time now; schedulePersist arms its timeout now
\* (burst counts up to MaxBurst)
scrollListenerAt(q) ==
    /\ scrollListener(q)
    /\ IF listenerSkips(autoWrite, setWidth)
       THEN UNCHANGED timing
       ELSE /\ armedAt' = now
            /\ burst' = IF ~persistTimer THEN 1
                        ELSE IF burst < MaxBurst THEN burst + 1 ELSE burst
            /\ writes' = IF persistTimer THEN writes ELSE 0

\* the pending timeout expires, no earlier than its deadline
persistTimeoutAt ==
    /\ now >= persistDeadline(armedAt)
    /\ persistTimeout
    /\ writes' = writes + 1
    /\ UNCHANGED <<armedAt, burst>>

\* the browser's next frame, its delivery of the queued scroll event, and the
\* expiry of a timeout that is due
frameDue ==
    /\ \E d \in FrameDeltas, q \in BOOLEAN : frame(d, q)
    /\ UNCHANGED <<gallery, applied, startup, page>>

scrollDue ==
    /\ \E q \in BOOLEAN : scrollListenerAt(q)
    /\ UNCHANGED <<gallery, applied, startup, page>>

timeoutDue ==
    /\ persistTimeoutAt
    /\ UNCHANGED <<gallery, applied, startup, page>>

NextDebounce ==
    \/ /\ \E w \in {MaxWidth}, q \in BOOLEAN : setupAutoScroll(w, q)
       /\ UNCHANGED <<timing, gallery, applied, startup, page>>
    \/ frameDue
    \/ /\ \E p \in UserPositions : UserScroll(p)
       /\ UNCHANGED <<timing, gallery, applied, startup, page>>
    \/ scrollDue
    \/ timeoutDue

\* the browser runs every frame, delivers every queued scroll event and runs
\* every timeout that is due
FairDebounce == WF_vars(frameDue) /\ WF_vars(scrollDue) /\ WF_vars(timeoutDue)

SpecDebounce == InitDebounce /\ [][NextDebounce]_vars /\ FairDebounce

----------------------------------------------------------------------------
(* The frame loop without end.  Only differences of time stamps matter to   *)
(* tick, so when a frame would pass MaxLoopTs the origin of time is moved:  *)
(* the frame runs at time stamp 2 * d with lastTs moved by the same shift.  *)

\* a frame d milliseconds after the previous one
frameLoop(d, q) ==
    IF now + d <= MaxLoopTs
    THEN tickFrom(lastTs, now + d, q)
    ELSE LET shift == (now + d) - 2 * d
         IN  tickFrom(lastTs - shift, 2 * d, q)

\* the next frame of the loop
nextFrame ==
    /\ \E d \in FrameDeltas, q \in BOOLEAN : frameLoop(d, q)
    /\ UNCHANGED <<timing, gallery, applied, startup, page>>

NextLoop ==
    \/ /\ \E w \in Widths, q \in BOOLEAN : setupAutoScroll(w, q)
       /\ UNCHANGED <<timing, gallery, applied, startup, page>>
    \/ nextFrame
    \/ /\ mouseenter
       /\ UNCHANGED <<timing, gallery, applied, startup, page>>
    \/ /\ mouseleave
       /\ UNCHANGED <<timing, gallery, applied, startup, page>>

\* the browser runs a requested frame callback at its next frame
FairFrames == WF_vars(nextFrame)

SpecLoop == Init /\ [][NextLoop]_vars /\ FairFrames

----------------------------------------------------------------------------
(* renderHorizontalScroll (src/commission.js:129-149): the scroller is set  *)
(* up when the images of the middle band are ready.  An image whose src is  *)
(* set once fires one load or one error event.                              *)

\* variant: the count is compared one short
allReady_OneShort(ld, t) == ld + 1 >= t

\* onImgReady: loaded >= total
allReady(ld, t) == ld >= t

\* allImgs.forEach over images k..Len(c), c[k] = img.complete: the values of
\* loaded and of the number of setupAutoScroll calls afterwards
RECURSIVE forEachImg(_, _, _, _)
forEachImg(c, k, ld, calls) ==
    IF k > Len(c) THEN [loaded |-> ld, calls |-> calls]
    ELSE IF c[k]
         THEN forEachImg(c, k + 1, ld + 1,
                         IF allReady(ld + 1, Len(c)) THEN calls + 1 ELSE calls)
         ELSE forEachImg(c, k + 1, ld, calls)

\* the statuses img.complete can have over n images
Completes(n) == [1 .. n -> BOOLEAN]

\* renderHorizontalScroll() from line 129 on, c[k] = allImgs[k].complete
renderHorizontalScroll(c) ==
    /\ ~rendered
    /\ rendered' = TRUE
    /\ total' = Len(c)
    /\ imgs' = [k \in 1 .. Len(c) |-> IF c[k] THEN "complete" ELSE "loading"]
    /\ IF Len(c) = 0
       THEN /\ loaded' = 0
            /\ setupCalls' = setupCalls + 1
       ELSE LET each == forEachImg(c, 1, 0, setupCalls)
            IN  /\ loaded' = each.loaded
                /\ setupCalls' = each.calls

\* the 'load' or 'error' listener of image k, ev the event
onImgReady(k, ev) ==
    /\ rendered
    /\ imgs[k] = "loading"
    /\ imgs' = [imgs EXCEPT ![k] = IF ev = "load" THEN "loaded" ELSE "failed"]
    /\ loaded' = loaded + 1
    /\ setupCalls' = IF allReady(loaded + 1, total) THEN setupCalls + 1 ELSE setupCalls
    /\ UNCHANGED <<rendered, total>>

InitRender ==
    /\ InitScroller
    /\ storage = NoItem
    /\ storageOk = TRUE
    /\ InitTiming
    /\ InitGallery
    /\ InitApplied
    /\ InitStartup
    /\ InitPage

NextRender ==
    \/ /\ \E n \in 0 .. MaxImages : \E c \in Completes(n) : renderHorizontalScroll(c)
       /\ UNCHANGED <<scroller, timing, applied, startup, page>>
    \/ /\ \E k \in DOMAIN imgs, ev \in {"load", "error"} : onImgReady(k, ev)
       /\ UNCHANGED <<scroller, timing, applied, startup, page>>

SpecRender == InitRender /\ [][NextRender]_vars

----------------------------------------------------------------------------
(* normalizeOffset and normalizeToMiddleBand applied to any value, for any  *)
(* value of the closure variable setWidth.                                  *)

\* the arguments: n/d for -MaxNum <= n <= MaxNum and 1 <= d <= MaxDen
Values == {Rat(n, d) : n \in (0 - MaxNum) .. MaxNum, d \in 1 .. MaxDen}

InitApply ==
    /\ \E w \in Widths : InitScrollerAt(w)
    /\ storage = NoItem
    /\ storageOk = TRUE
    /\ InitTiming
    /\ InitGallery
    /\ fn = "none" /\ arg \in Values /\ result = R(0)
    /\ InitStartup
    /\ InitPage

\* result = normalizeOffset(arg)
applyOffset ==
    /\ fn' = "offset"
    /\ result' = normalizeOffset(arg, setWidth)
    /\ UNCHANGED arg

\* result = normalizeToMiddleBand(arg)
applyBand ==
    /\ fn' = "band"
    /\ result' = normalizeToMiddleBand(arg, setWidth)
    /\ UNCHANGED arg

\* the value returned becomes the next argument
applyAgain ==
    /\ fn # "none"
    /\ arg' = result
    /\ fn' = "none"
    /\ result' = R(0)

NextApply ==
    \/ applyOffset /\ UNCHANGED <<scroller, timing, gallery, startup, page>>
    \/ applyBand /\ UNCHANGED <<scroller, timing, gallery, startup, page>>
    \/ applyAgain /\ UNCHANGED <<scroller, timing, gallery, startup, page>>

SpecApply == InitApply /\ [][NextApply]_vars

----------------------------------------------------------------------------
(* Frames of unequal length while the pointer enters and leaves.            *)

\* a frame d milliseconds after the previous one, up to time MaxPauseTs
framePause(d, q) ==
    /\ now + d <= MaxPauseTs
    /\ tickAt(now + d, q)

NextPause ==
    \/ /\ \E w \in Widths, q \in BOOLEAN : setupAutoScroll(w, q)
       /\ UNCHANGED <<timing, gallery, applied, startup, page>>
    \/ /\ \E d \in PauseDeltas, q \in BOOLEAN : framePause(d, q)
       /\ UNCHANGED <<timing, gallery, applied, startup, page>>
    \/ /\ mouseenter
       /\ UNCHANGED <<timing, gallery, applied, startup, page>>
    \/ /\ mouseleave
       /\ UNCHANGED <<timing, gallery, applied, startup, page>>

SpecPause == Init /\ [][NextPause]_vars

----------------------------------------------------------------------------
(* A start before the band is laid out: what setupAutoScroll found in      *)
(* storage, and whether a positive width has been measured since.          *)

\* setupAutoScroll(referenceSet), the stored item remembered
setupStart(w, q) ==
    /\ setupAutoScroll(w, q)
    /\ storedAtSetup' = storage
    /\ widthSeen' = (w > 0)

\* window 'resize' listener
resizeStart(w, q) ==
    /\ resizeListener(w, q)
    /\ widthSeen' = (widthSeen \/ w > 0)
    /\ UNCHANGED storedAtSetup

NextStart ==
    \/ /\ \E w \in Widths, q \in BOOLEAN : setupStart(w, q)
       /\ UNCHANGED <<timing, gallery, applied, page>>
    \/ /\ \E d \in FrameDeltas, q \in BOOLEAN : tick(d, q)
       /\ UNCHANGED <<timing, gallery, applied, startup, page>>
    \/ /\ \E p \in UserPositions : UserScroll(p)
       /\ UNCHANGED <<timing, gallery, applied, startup, page>>
    \/ /\ \E q \in BOOLEAN : scrollListener(q)
       /\ UNCHANGED <<timing, gallery, applied, startup, page>>
    \/ /\ \E w \in Widths, q \in BOOLEAN : resizeStart(w, q)
       /\ UNCHANGED <<timing, gallery, applied, page>>
    \/ /\ persistTimeout
       /\ UNCHANGED <<timing, gallery, applied, startup, page>>
    \/ /\ pagehideListener
       /\ UNCHANGED <<timing, gallery, applied, startup, page>>
    \/ /\ \E v \in {"hidden", "visible"} : visibilitychangeListener(v)
       /\ UNCHANGED <<timing, gallery, applied, startup, page>>

SpecStart == Init /\ [][NextStart]_vars

----------------------------------------------------------------------------
(* The lightbox of the project page (part_001).                            *)

\* variant: only the lower end of the image list stops the navigation
outOfList_NoUpperEnd(nextIndex, len) == nextIndex < 0

\* nextIndex < 0 || nextIndex >= images.length
outOfList(nextIndex, len) == nextIndex < 0 \/ nextIndex >= len

\* images[i], undefined outside the list
imageAt(i) ==
    IF i + 1 \in DOMAIN images THEN Src("image", images[i + 1]) ELSE Src("undefined", 0)

\* updateLightboxButtons(), for the index i
updateLightboxButtons(i) ==
    /\ prevBtnHidden' = (i = 0)
    /\ nextBtnHidden' = (i = Len(images) - 1)

\* openLightbox(index), the click listener of gallery image number index
openLightbox(index) ==
    /\ currentImageIndex' = index
    /\ lightboxSrc' = imageAt(index)
    /\ lightboxHidden' = FALSE
    /\ updateLightboxButtons(index)
    /\ lightboxCall' = Call("open", index)
    /\ UNCHANGED <<images, viewingInfo, navDisplayNone, infoInteractive>>

\* closeLightbox()
closeLightbox ==
    /\ lightboxHidden' = TRUE
    /\ navDisplayNone' = FALSE
    /\ viewingInfo' = FALSE
    /\ lightboxCall' = Call("close", 0)
    /\ UNCHANGED <<images, currentImageIndex, lightboxSrc, prevBtnHidden, nextBtnHidden,
                   infoInteractive>>

\* navigateLightbox(direction)
navigateLightbox(direction) ==
    /\ lightboxCall' = Call("navigate", direction)
    /\ IF viewingInfo \/ outOfList(currentImageIndex + direction, Len(images))
       THEN UNCHANGED <<currentImageIndex, lightboxSrc, prevBtnHidden, nextBtnHidden>>
       ELSE /\ currentImageIndex' = currentImageIndex + direction
            /\ lightboxSrc' = imageAt(currentImageIndex + direction)
            /\ updateLightboxButtons(currentImageIndex + direction)
    /\ UNCHANGED <<images, lightboxHidden, viewingInfo, navDisplayNone, infoInteractive>>

\* infoImg.onload: setupInfoLightbox(infoImg)
infoOnload ==
    /\ ~infoInteractive
    /\ infoInteractive' = TRUE
    /\ lightboxCall' = Call("setupInfo", 0)
    /\ UNCHANGED <<images, currentImageIndex, lightboxHidden, viewingInfo, lightboxSrc,
                   navDisplayNone, prevBtnHidden, nextBtnHidden>>

\* the click listener of the info image
infoClick ==
    /\ infoInteractive
    /\ navDisplayNone' = TRUE
    /\ lightboxSrc' = Src("info", 0)
    /\ lightboxHidden' = FALSE
    /\ viewingInfo' = TRUE
    /\ lightboxCall' = Call("info", 0)
    /\ UNCHANGED <<images, currentImageIndex, prevBtnHidden, nextBtnHidden, infoInteractive>>

\* the document's keydown listener
keydown(key) ==
    /\ ~lightboxHidden
    /\ CASE key = "ArrowLeft" -> navigateLightbox(-1)
         [] key = "ArrowRight" -> navigateLightbox(1)
         [] OTHER -> closeLightbox

\* the click listener of #lightbox, the click being on the element itself
lightboxClick == closeLightbox

InitProject ==
    /\ InitScroller
    /\ storage = NoItem
    /\ storageOk = TRUE
    /\ InitTiming
    /\ InitGallery
    /\ InitApplied
    /\ InitStartup
    /\ InitGate
    /\ InitDrag
    /\ \E n \in 1 .. MaxGallery : InitLightboxWith(n)

NextProject ==
    \/ /\ \E index \in 0 .. (Len(images) - 1) : openLightbox(index)
       /\ UNCHANGED <<scroller, timing, gallery, applied, startup, gate, drag>>
    \/ /\ closeLightbox
       /\ UNCHANGED <<scroller, timing, gallery, applied, startup, gate, drag>>
    \/ /\ \E direction \in {-1, 1} : navigateLightbox(direction)
       /\ UNCHANGED <<scroller, timing, gallery, applied, startup, gate, drag>>
    \/ /\ \E key \in {"ArrowLeft", "ArrowRight", "Escape"} : keydown(key)
       /\ UNCHANGED <<scroller, timing, gallery, applied, startup, gate, drag>>
    \/ /\ lightboxClick
       /\ UNCHANGED <<scroller, timing, gallery, applied, startup, gate, drag>>
    \/ /\ infoOnload
       /\ UNCHANGED <<scroller, timing, gallery, applied, startup, gate, drag>>
    \/ /\ infoClick
       /\ UNCHANGED <<scroller, timing, gallery, applied, startup, gate, drag>>

SpecProject == InitProject /\ [][NextProject]_vars

----------------------------------------------------------------------------
(* Drag scroll of the bio strip (part_003, setupBioDragScroll).  An event  *)
(* carries the pointer it belongs to; several pointers (fingers, a mouse   *)
(* and a pen) can be down at a time.  The strip's scrollLeft is kept       *)
(* within 0..MaxBioScroll, as the browser clamps it.                       *)

ClampScroll(x) == IF x < 0 THEN 0 ELSE IF x > MaxBioScroll THEN MaxBioScroll ELSE x

\* Math.abs(deltaX) > dragThreshold
overThreshold(deltaX) == Abs(deltaX) > dragThreshold

\* endDrag()
endDrag ==
    IF ~pointerDown
    THEN UNCHANGED bioClosure
    ELSE /\ pointerDown' = FALSE
         /\ pointerId' = 0
         /\ suppressClick' = dragged
         /\ dragged' = FALSE
         /\ bioClasses' = {}
         /\ UNCHANGED <<startX, startScrollLeft, bioScrollLeft>>

\* pointer id is released
gestureEnds(id) ==
    /\ IF pointers[id].primary
       THEN /\ endedGesture' = IF pointers[id].moved THEN "moved" ELSE "still"
            /\ clickedSince' = FALSE
       ELSE UNCHANGED <<endedGesture, clickedSince>>
    /\ pointers' = [pointers EXCEPT ![id] = Released]

\* 'pointerdown' listener; primary: e.pointerType is 'touch' or e.button is 0
pointerdown(id, x, primary) ==
    /\ ~pointers[id].pressed
    /\ IF ~primary
       THEN UNCHANGED bioClosure
       ELSE /\ pointerDown' = TRUE
            /\ pointerId' = id
            /\ startX' = x
            /\ startScrollLeft' = bioScrollLeft
            /\ dragged' = FALSE
            /\ bioClasses' = bioClasses \cup {"is-grabbing"}
            /\ UNCHANGED <<suppressClick, bioScrollLeft>>
    /\ pointers' = [pointers EXCEPT ![id] = [pressed |-> TRUE, primary |-> primary,
                                             at |-> x, moved |-> FALSE]]
    /\ lastEvent' = Event("pointerdown")
    /\ UNCHANGED <<endedGesture, clickedSince>>

\* 'pointermove' listener
pointermove(id, x) ==
    /\ IF ~pointerDown
       THEN /\ UNCHANGED bioClosure
            /\ lastEvent' = Event("pointermove")
       ELSE LET deltaX == x - startX
                starts == ~dragged /\ overThreshold(deltaX)
            IN  /\ dragged' = (dragged \/ starts)
                /\ bioClasses' =
                      IF starts THEN bioClasses \cup {"is-dragging"} ELSE bioClasses
                /\ bioScrollLeft' =
                      IF dragged \/ starts
                      THEN ClampScroll(startScrollLeft - deltaX) ELSE bioScrollLeft
                /\ lastEvent' = [Event("pointermove") EXCEPT !.prevented = dragged \/ starts]
                /\ UNCHANGED <<pointerDown, pointerId, startX, startScrollLeft, suppressClick>>
    /\ pointers' =
          IF pointers[id].pressed
          THEN [pointers EXCEPT ![id].moved = @ \/ overThreshold(x - pointers[id].at)]
          ELSE pointers
    /\ UNCHANGED <<endedGesture, clickedSince>>

\* 'pointerup' and 'pointercancel' listeners
pointerup(id, type) ==
    /\ pointers[id].pressed
    /\ endDrag
    /\ gestureEnds(id)
    /\ lastEvent' = Event(type)

\* 'pointerleave' listener, for a mouse whose primary button is up
\* (released) or still down
pointerleave(id, released) ==
    /\ IF pointerDown /\ released THEN endDrag ELSE UNCHANGED bioClosure
    /\ IF pointers[id].pressed /\ released
       THEN gestureEnds(id)
       ELSE UNCHANGED <<pointers, endedGesture, clickedSince>>
    /\ lastEvent' = Event("pointerleave")

\* 'click' listener (capturing)
click ==
    /\ suppressClick' = FALSE
    /\ lastEvent' = [Event("click") EXCEPT !.prevented = suppressClick]
    /\ clickedSince' = TRUE
    /\ UNCHANGED <<pointerDown, pointerId, startX, startScrollLeft, dragged,
                   bioScrollLeft, bioClasses, pointers, endedGesture>>

InitBio ==
    /\ InitScroller
    /\ storage = NoItem
    /\ storageOk = TRUE
    /\ InitTiming
    /\ InitGallery
    /\ InitApplied
    /\ InitStartup
    /\ InitPage

NextBio ==
    \/ /\ \E id \in PointerIds, x \in ClientXs, primary \in BOOLEAN : pointerdown(id, x, primary)
       /\ UNCHANGED <<scroller, timing, gallery, applied, startup, gate, lightbox>>
    \/ /\ \E id \in PointerIds, x \in ClientXs : pointermove(id, x)
       /\ UNCHANGED <<scroller, timing, gallery, applied, startup, gate, lightbox>>
    \/ /\ \E id \in PointerIds, type \in {"pointerup", "pointercancel"} : pointerup(id, type)
       /\ UNCHANGED <<scroller, timing, gallery, applied, startup, gate, lightbox>>
    \/ /\ \E id \in PointerIds, released \in BOOLEAN : pointerleave(id, released)
       /\ UNCHANGED <<scroller, timing, gallery, applied, startup, gate, lightbox>>
    \/ /\ click
       /\ UNCHANGED <<scroller, timing, gallery, applied, startup, gate, lightbox>>

SpecBio == InitBio /\ [][NextBio]_vars

----------------------------------------------------------------------------
(* The mobile gate (part_000).  An overlay that has class "hidden" is not  *)
(* displayed and receives no click.                                        *)

\* the media queries of isMobileish() change their answer
mediaChange(m) ==
    /\ m # mobileish
    /\ mobileish' = m
    /\ gateOp' = GateOp("media")
    /\ UNCHANGED <<overlayHidden, gateExpanded, resizeTimer, gateResizes>>

\* window 'resize' listener: clearTimeout(resizeTimer), then a new timeout
gateResize ==
    /\ gateResizes < MaxResizes
    /\ resizeTimer' = TRUE
    /\ gateResizes' = gateResizes + 1
    /\ gateOp' = GateOp("resize")
    /\ UNCHANGED <<overlayHidden, gateExpanded, mobileish>>

\* the timeout set by the resize listener expires: update()
gateTimeout ==
    /\ resizeTimer
    /\ resizeTimer' = FALSE
    /\ overlayHidden' = update(mobileish, overlayHidden, gateExpanded).hidden
    /\ gateExpanded' = update(mobileish, overlayHidden, gateExpanded).expanded
    /\ gateResizes' = 0
    /\ gateOp' = Checked(FALSE, mobileish, overlayHidden, gateExpanded)
    /\ UNCHANGED mobileish

\* 'click' listener of the image, the overlay being displayed
imgClick ==
    /\ ~overlayHidden
    /\ gateExpanded' = TRUE
    /\ gateOp' = GateOp("imgClick")
    /\ UNCHANGED <<overlayHidden, mobileish, resizeTimer, gateResizes>>

\* 'click' listener of the overlay for a click outside the image (a click
\* on the image does not reach it: stopPropagation)
overlayClick ==
    /\ ~overlayHidden
    /\ gateExpanded' = (IF gateExpanded THEN FALSE ELSE gateExpanded)
    /\ gateOp' = GateOp("overlayClick")
    /\ UNCHANGED <<overlayHidden, mobileish, resizeTimer, gateResizes>>

InitGated ==
    /\ InitScroller
    /\ storage = NoItem
    /\ storageOk = TRUE
    /\ InitTiming
    /\ InitGallery
    /\ InitApplied
    /\ InitStartup
    /\ InitLightbox
    /\ InitDrag
    /\ \E m, hidden, expanded \in BOOLEAN : InitGateOn(m, hidden, expanded)

NextGated ==
    \/ /\ \E m \in BOOLEAN : mediaChange(m)
       /\ UNCHANGED <<scroller, timing, gallery, applied, startup, lightbox, drag>>
    \/ /\ gateResize
       /\ UNCHANGED <<scroller, timing, gallery, applied, startup, lightbox, drag>>
    \/ /\ gateTimeout
       /\ UNCHANGED <<scroller, timing, gallery, applied, startup, lightbox, drag>>
    \/ /\ imgClick
       /\ UNCHANGED <<scroller, timing, gallery, applied, startup, lightbox, drag>>
    \/ /\ overlayClick
       /\ UNCHANGED <<scroller, timing, gallery, applied, startup, lightbox, drag>>

SpecGated == InitGated /\ [][NextGated]_vars

----------------------------------------------------------------------------
(* Properties *)

InBand(x, w) == RLeq(R(w), x) /\ RLess(x, R(2 * w))

\* C1: a scroll event caused by the scroller's own position write is never
\* handled as user interference: its delivery changes neither savedPos nor
\* scrollLeft and arms no persist timer.
C1_OwnWriteIgnored ==
    [][(pendingScroll = "auto" /\ lastOp'.op = "scroll")
        => (savedPos' = savedPos /\ scrollLeft' = scrollLeft
            /\ persistTimer' = persistTimer)]_vars

\* C2: whenever setWidth > 0, after setup and after every finished handler
\* (no user movement still waiting for its scroll event), scrollLeft lies
\* in [setWidth, 2*setWidth).
C2_ScrollLeftInMiddleBand ==
    (installed /\ setWidth > 0 /\ pendingScroll # "user")
        => InBand(scrollLeft, setWidth)

\* C3: whenever setWidth > 0, every callback that performs a programmatic
\* write (setup, resize, an advancing tick, a re-centring scroll listener)
\* ends with scrollLeft = setWidth + savedPos, and every handled user scroll
\* event ends with savedPos = normalizeOffset(scrollLeft - setWidth).
C3_WriteReadInvariant ==
    [][/\ (lastOp'.op \in {"setup", "resize"} /\ setWidth' > 0)
            => scrollLeft' = RAdd(R(setWidth'), savedPos')
       /\ (lastOp'.op = "tick" /\ ~paused /\ setWidth > 0)
            => scrollLeft' = RAdd(R(setWidth'), savedPos')
       /\ (lastOp'.op = "scroll" /\ scrollLeft' # scrollLeft)
            => scrollLeft' = RAdd(R(setWidth'), savedPos')
       /\ (lastOp'.op = "scroll" /\ pendingScroll = "user" /\ setWidth > 0)
            => savedPos' = normalizeOffset(RSub(scrollLeft', R(setWidth')), setWidth')
      ]_vars

\* a scroll listener has just re-centred (its own write is queued) and left
\* a non-zero offset
C3_Witness ==
    /\ lastOp.op = "scroll"
    /\ pendingScroll = "auto"
    /\ savedPos # R(0)
    /\ scrollLeft = RAdd(R(setWidth), savedPos)

\* C4: whenever setWidth > 0, 0 <= savedPos < setWidth.
C4_SavedPosInBand ==
    setWidth > 0 => (RLeq(R(0), savedPos) /\ RLess(savedPos, R(setWidth)))

\* a resize has supplied a positive width after a zero width, with an
\* offset kept from before the zero width
C4_Witness ==
    /\ lastOp.op = "resize"
    /\ lastOp.prevWidth = 0
    /\ setWidth > 0
    /\ savedPos # R(0)

\* setWidth 1000 and stored "250"
C5_Example == bandPosition(1000, restoreOffset(String(R(250)), TRUE, 1000)) = R(1250)

\* C5: after setup with a readable, finite stored value s and setWidth > 0,
\* savedPos = normalizeOffset(s) and scrollLeft = setWidth + savedPos;
\* setWidth 1000 and stored "250" give 1250.
C5_SetupRestores ==
    /\ (lastOp.op = "setup" /\ setWidth > 0 /\ storageOk /\ Number(storage).finite)
         => /\ savedPos = normalizeOffset(Number(storage).val, setWidth)
            /\ scrollLeft = RAdd(R(setWidth), savedPos)
    /\ C5_Example

\* setup at width 2 has restored the stored offset 5/2 as 1/2
C5_Witness ==
    /\ lastOp.op = "setup"
    /\ setWidth = 2
    /\ storageOk
    /\ storage = String(<<5, 2>>)
    /\ savedPos = <<1, 2>>
    /\ scrollLeft = <<5, 2>>

\* speed 30, elapsed 1 s, setWidth 1000, savedPos 990
C6_Example ==
    /\ advanceOffset(R(990), R(1), 1000) = R(20)
    /\ bandPosition(1000, advanceOffset(R(990), R(1), 1000)) = R(1020)

\* C6: a tick with paused = false and setWidth > 0 sets savedPos to
\* normalizeOffset(savedPos + speed * elapsedSeconds) and scrollLeft to
\* setWidth + savedPos; speed 30, 1 s, setWidth 1000, savedPos 990 give 20
\* and 1020.
C6_TickAdvances ==
    [][/\ (lastOp'.op = "tick" /\ ~paused /\ setWidth > 0)
            => LET base == IF lastTs = 0 THEN now' ELSE lastTs
                   elapsed == Rat(now' - base, 1000)
                   moved == RAdd(savedPos, RMul(R(30), elapsed))
               IN  /\ savedPos' = normalizeOffset(moved, setWidth)
                   /\ scrollLeft' = RAdd(R(setWidth), savedPos')
       /\ C6_Example
      ]_vars

\* a later tick (positive elapsed time) at width 2 has wrapped past the
\* band end to offset 1/2
C6_Witness ==
    /\ lastOp.op = "tick"
    /\ ~paused
    /\ setWidth = 2
    /\ lastTs = 100
    /\ savedPos = <<1, 2>>
    /\ scrollLeft = <<5, 2>>

\* C7: a tick while paused leaves savedPos, scrollLeft, storage and the
\* persist timer unchanged, and still requests the next frame.
C7_PausedTickFrame ==
    [][(lastOp'.op = "tick" /\ paused)
        => /\ savedPos' = savedPos
           /\ scrollLeft' = scrollLeft
           /\ storage' = storage
           /\ persistTimer' = persistTimer
           /\ rafPending' = 1
           /\ lastTs' = now'
      ]_vars

\* a paused tick with positive elapsed time has run at a positive width
C7_Witness ==
    /\ lastOp.op = "tick"
    /\ paused
    /\ setWidth > 0
    /\ lastTs = 100

\* C8: a user scroll event with setWidth > 0 and scrollLeft outside the
\* middle band rewrites scrollLeft to normalizeToMiddleBand(scrollLeft),
\* sets savedPos to the offset in the band and schedules a persist.
C8_RecentreOutsideBand ==
    [][(lastOp'.op = "scroll" /\ pendingScroll = "user" /\ setWidth > 0
        /\ ~InBand(scrollLeft, setWidth))
        => /\ scrollLeft' = normalizeToMiddleBand(scrollLeft, setWidth)
           /\ savedPos' = RSub(scrollLeft', R(setWidth))
           /\ persistTimer'
      ]_vars

\* resize from 1000 to 2000 with savedPos 500
C9_Example == rescaleOffset(R(500), 1000, 2000) = R(1000)

\* C9: a resize from a positive width to a positive width sets savedPos to
\* normalizeOffset(savedPos * newWidth / oldWidth), keeping the proportion
\* within the band, and scrollLeft to newWidth + savedPos; 1000 to 2000
\* with savedPos 500 gives 1000.
C9_ResizeRescales ==
    [][/\ (lastOp'.op = "resize" /\ setWidth > 0 /\ setWidth' > 0)
            => /\ savedPos' = normalizeOffset(RDivInt(RMul(savedPos, R(setWidth')), setWidth),
                                              setWidth')
               /\ RMul(savedPos', R(setWidth)) = RMul(savedPos, R(setWidth'))
               /\ scrollLeft' = RAdd(R(setWidth'), savedPos')
       /\ C9_Example
      ]_vars

\* a resize from width 1 to width 2 has doubled the offset 1/2
C9_Witness ==
    /\ lastOp.op = "resize"
    /\ lastOp.prevWidth = 1
    /\ setWidth = 2
    /\ savedPos = R(1)
    /\ scrollLeft = R(3)

\* C10: page-hide and a visibility change to hidden leave no persist timer
\* pending, leave savedPos alone and, when storage is available, leave the
\* stored item equal to String(savedPos), whether or not a timer was pending.
C10_HideFlushes ==
    [][lastOp'.op = "hide"
        => /\ ~persistTimer'
           /\ savedPos' = savedPos
           /\ (storageOk => storage' = String(savedPos))
           /\ (~storageOk => storage' = storage)
      ]_vars

\* a hide flush has cancelled a pending timer and stored a non-zero offset
C10_Witness ==
    /\ lastOp.op = "hide"
    /\ lastOp.cleared
    /\ ~persistTimer
    /\ storageOk
    /\ savedPos # R(0)
    /\ storage = String(savedPos)

\* C12: at most one persist timeout is outstanding in every reachable state,
\* and it is the one persistTimer holds: the scroll listener clears the
\* pending one before it arms another, an expired timeout and the hide
\* listeners leave the slot empty.
C12_SingleSlot ==
    /\ timeouts <= 1
    /\ persistTimer <=> (timeouts = 1)
    /\ (lastOp.op = "scroll" /\ lastOp.cleared) => (persistTimer /\ timeouts = 1)
    /\ lastOp.op \in {"timer", "hide"} => (~persistTimer /\ timeouts = 0)

\* a scroll event handled while a timeout was pending
C12_Witness ==
    lastOp.op = "scroll" /\ lastOp.cleared /\ persistTimer /\ timeouts = 1


\* C11: persistence is a trailing debounce.  Once the user's scroll events
\* have ended, the timeout armed by a handled scroll event leads to the one
\* write of the burst; that write happens persistDelayMs or more after the
\* burst's last event and stores the value savedPos has at that moment; and
\* an event handled while a timeout is pending causes no write.
C11_TrailingDebounce ==
    /\ [][/\ lastOp'.op = "timer"
               => /\ now' >= armedAt + persistDelayMs
                  /\ storage' = String(savedPos')
                  /\ writes' = 1
                  /\ ~persistTimer'
          /\ (lastOp'.op = "scroll" /\ persistTimer)
               => /\ writes' = 0 /\ storage' = storage
                  /\ armedAt' = now
         ]_vars
    /\ <>[](pendingScroll # "user")
         => ((lastOp.op = "scroll" /\ persistTimer) ~> (lastOp.op = "timer"))

\* the part of C11 that holds: no write while a burst lasts, at most one
\* write for it, after the delay and of the value savedPos then has
C11_WriteOnlyAfterDelay ==
    [][/\ lastOp'.op = "timer"
            => /\ now' >= armedAt + persistDelayMs
               /\ storage' = String(savedPos')
               /\ writes' = 1
               /\ ~persistTimer'
       /\ (lastOp'.op = "scroll" /\ persistTimer)
            => /\ writes' = 0 /\ storage' = storage
               /\ armedAt' = now
      ]_vars

\* the write of a burst of two or more events, after the offset has moved on
\* from the value it had at the burst's last event
C11_WriteReached ==
    /\ lastOp.op = "timer" /\ writes = 1 /\ burst >= 2
    /\ storage = String(savedPos)
    /\ now >= armedAt + 250

\* C13: when localStorage.setItem throws in the timeout's write or in a hide
\* flush, no exception leaves the callback, savedPos, scrollLeft, paused and
\* setWidth keep their values, the timer slot is empty afterwards, the frame
\* request stays pending, and the tick that follows advances savedPos as any
\* other tick does.
C13_FailedWriteHarmless ==
    [][/\ (lastOp'.op \in {"timer", "hide"} /\ ~storageOk)
            => /\ ~lastOp'.threw
               /\ savedPos' = savedPos /\ scrollLeft' = scrollLeft
               /\ paused' = paused /\ setWidth' = setWidth
               /\ ~persistTimer' /\ timeouts' = 0
               /\ storage' = storage
               /\ rafPending' = rafPending /\ rafPending' = 1
       /\ (lastOp.op \in {"timer", "hide"} /\ ~storageOk /\ lastOp'.op = "tick"
             /\ ~paused /\ setWidth > 0)
            => /\ savedPos' = normalizeOffset(
                      RAdd(savedPos, RMul(R(speedPxPerSecond),
                                          elapsedSeconds(lastTs, now'))), setWidth)
               /\ scrollLeft' = RAdd(R(setWidth), savedPos')
      ]_vars

\* the timeout's write has failed while the band is moving
C13_Witness ==
    /\ lastOp.op = "timer" /\ ~storageOk /\ ~lastOp.threw
    /\ setWidth > 0 /\ ~paused /\ now < MaxTs


\* the stored text "Infinity" and a throwing read both restore offset 0
C14_Example ==
    /\ restoreOffset([kind |-> "inf", val |-> R(0)], TRUE, 2) = R(0)
    /\ restoreOffset(String(<<5, 2>>), FALSE, 2) = R(0)

\* C14: when the read of the stored offset throws, or the item is absent or
\* is not a finite number, setup completes with savedPos = 0: scrollLeft is
\* setWidth if setWidth > 0, the listeners are installed and one frame is
\* requested.
C14_SetupDefaults ==
    /\ (lastOp.op = "setup" /\ (~storageOk \/ ~Number(storage).finite
                                 \/ storage = NoItem))
         => /\ savedPos = R(0)
            /\ setWidth > 0 => scrollLeft = R(setWidth)
            /\ installed
            /\ rafPending = 1
    /\ C14_Example

\* setup has run with a stored offset whose read threw
C14_Witness ==
    /\ lastOp.op = "setup" /\ ~storageOk /\ storage = String(<<5, 2>>)
    /\ setWidth = 2 /\ scrollLeft = R(2)


\* with setWidth = 0 both normalisations return 0, whatever the value
C15_Example ==
    \A v \in {R(-3), R(0), <<5, 2>>, R(7)} :
        normalizeOffset(v, 0) = R(0) /\ normalizeToMiddleBand(v, 0) = R(0)

\* C15: while setWidth <= 0 a tick or a scroll event, and a resize or a setup
\* that measures a non-positive width, leave scrollLeft, savedPos and the
\* timer slot as they are; setup still installs the listeners and requests
\* the first frame, and a tick still requests the next one.
C15_InertAtZeroWidth ==
    [][/\ ((setWidth <= 0 /\ lastOp'.op \in {"tick", "scroll"})
             \/ (setWidth' <= 0 /\ lastOp'.op \in {"resize", "setup"}))
            => /\ scrollLeft' = scrollLeft
               /\ savedPos' = savedPos
               /\ persistTimer' = persistTimer /\ timeouts' = timeouts
               /\ installed' /\ rafPending' = 1
       /\ C15_Example
      ]_vars

\* a scroll event delivered after the width dropped to 0, ticks running
C15_Witness ==
    /\ lastOp.op = "scroll" /\ setWidth = 0 /\ installed
    /\ ~persistTimer /\ lastTs > 0


\* C16: the tick is a chain that requests itself.  Before setup no frame is
\* requested; from setup on exactly one frame callback is pending in every
\* state, each tick leaving one pending whatever paused and setWidth are;
\* and under fair frame delivery ticks run again and again.
C16_TickChain ==
    /\ [](IF installed THEN rafPending = 1 ELSE rafPending = 0)
    /\ [][lastOp'.op = "tick" => (rafPending = 1 /\ rafPending' = 1)]_vars
    /\ \A d \in FrameDeltas :
         /\ installed ~> (lastOp.op = "tick" /\ now = 2 * d)
         /\ installed ~> (lastOp.op = "tick" /\ now # 2 * d)

\* a tick has run while paused and has left one frame requested
C16_Witness ==
    /\ lastOp.op = "tick" /\ paused /\ rafPending = 1
    /\ now = 100 /\ lastTs = 100 /\ savedPos # R(0)


\* C17: in one render setupAutoScroll is invoked at most once, not while an
\* image of the middle band is still loading, and exactly once as soon as
\* every image was found complete or has fired load or error, in whatever
\* order the images finish.
C17_SetupOnceWhenReady ==
    /\ ~rendered => setupCalls = 0
    /\ rendered =>
         /\ (\E k \in DOMAIN imgs : imgs[k] = "loading") => setupCalls = 0
         /\ (\A k \in DOMAIN imgs : imgs[k] # "loading") => setupCalls = 1
         /\ total = Len(imgs)
         /\ loaded = Cardinality({k \in DOMAIN imgs : imgs[k] # "loading"})

\* three images ready in three ways, the first of them the last to finish
C17_Witness ==
    /\ rendered /\ total = 3 /\ setupCalls = 1
    /\ imgs = <<"failed", "complete", "loaded">>


\* x is a whole multiple of w (w > 0)
IsMultiple(x, w) == RDivInt(x, w)[2] = 1

\* C18: for every value and every setWidth > 0, normalizeOffset(v) is v
\* modulo setWidth taken in [0, setWidth): it lies in that interval and
\* differs from v by a whole multiple of setWidth; and normalizeOffset of it
\* is itself.
C18_OffsetIsModulo ==
    (fn = "offset" /\ setWidth > 0)
      => /\ RLeq(R(0), result) /\ RLess(result, R(setWidth))
         /\ IsMultiple(RSub(arg, result), setWidth)
         /\ normalizeOffset(result, setWidth) = result

\* a negative value brought into [0, setWidth)
C18_Witness ==
    fn = "offset" /\ setWidth = 2 /\ arg = <<-5, 2>> /\ result = <<3, 2>>

\* C19 as stated, for every value and every setWidth: normalizeToMiddleBand(v)
\* lies in [setWidth, 2 * setWidth) and differs from v by a whole multiple of
\* setWidth.
C19_BandForEveryWidth ==
    fn = "band"
      => /\ InBand(result, setWidth)
         /\ \E k \in (0 - 2 * MaxNum) .. (2 * MaxNum) :
                RSub(result, arg) = R(k * setWidth)

\* C19, for setWidth > 0: normalizeToMiddleBand(v) lies in
\* [setWidth, 2 * setWidth) and differs from v by a whole multiple of
\* setWidth, so the offset within the band is the offset of v.
C19_BandForPositiveWidth ==
    (fn = "band" /\ setWidth > 0)
      => /\ InBand(result, setWidth)
         /\ IsMultiple(RSub(result, arg), setWidth)
         /\ normalizeOffset(result, setWidth) = normalizeOffset(arg, setWidth)

\* a position left of the first band brought into the middle band
C19_Witness ==
    fn = "band" /\ setWidth = 2 /\ arg = <<-5, 2>> /\ result = <<7, 2>>


\* C20: a tick measures the time since the tick before it, and none on the
\* first tick.  Every tick, paused or not, makes its time stamp the baseline;
\* the first tick leaves savedPos at the restored offset; any later tick that
\* advances, the first one after the pointer left included, moves savedPos by
\* speed times the time since the preceding tick.
C20_ElapsedSincePrecedingTick ==
    [][lastOp'.op = "tick"
         => /\ lastTs' = now'
            /\ lastTs = 0 => savedPos' = savedPos
            /\ (lastTs # 0 /\ ~paused /\ setWidth > 0)
                 => savedPos' = normalizeOffset(
                        RAdd(savedPos, RMul(R(speedPxPerSecond),
                                            Rat(now' - now, 1000))), setWidth)
      ]_vars

\* nothing stored, width 2, first tick at 50 ms, paused until the frame at
\* 150 ms, resumed: the tick at 200 ms has moved the offset by 1.5 px
C20_Witness ==
    /\ lastOp.op = "tick" /\ ~paused /\ setWidth = 2
    /\ storage = NoItem /\ now = 200 /\ savedPos = <<3, 2>>


----------------------------------------------------------------------------
\* setupAutoScroll found a finite offset in storage and no positive width
\* has been measured yet
ZeroStart == installed /\ ~widthSeen /\ storageOk /\ Number(storedAtSetup).finite

\* C21: if setupAutoScroll ran at setWidth 0 with a finite offset s in
\* storage, the resize that first supplies a width W > 0 makes savedPos
\* normalizeOffset(s) and scrollLeft W + normalizeOffset(s), and until then
\* no flush replaces the stored offset by a different value.
C21_StoredOffsetSurvivesZeroWidth ==
    /\ [][(ZeroStart /\ lastOp'.op = "resize" /\ setWidth' > 0)
            => /\ savedPos' = normalizeOffset(Number(storedAtSetup).val, setWidth')
               /\ scrollLeft' = bandPosition(setWidth',
                                    normalizeOffset(Number(storedAtSetup).val, setWidth'))]_vars
    /\ [](ZeroStart => Number(storage).finite /\ Number(storage).val = Number(storedAtSetup).val)


----------------------------------------------------------------------------
\* the lightbox shows the info image
InfoViewed == ~lightboxHidden /\ lightboxSrc.kind = "info"

\* C22: the lightbox never leaves the image list and never wraps:
\* 0 <= currentImageIndex < images.length always, and the image shown, if a
\* gallery image, is images[currentImageIndex]; navigateLightbox moves the
\* index by its direction or not at all; previous at the first image and
\* next at the last image change nothing, and navigation changes nothing
\* while the info image is viewed.
C22_NavigationStaysInList ==
    /\ [](/\ 0 <= currentImageIndex
          /\ currentImageIndex < Len(images)
          /\ lightboxSrc.kind \in {"none", "info", "image"}
          /\ lightboxSrc.kind = "image" => lightboxSrc = imageAt(currentImageIndex))
    /\ [][lightboxCall'.fn = "navigate"
            => /\ currentImageIndex' \in {currentImageIndex,
                                          currentImageIndex + lightboxCall'.arg}
               /\ (\/ currentImageIndex = 0 /\ lightboxCall'.arg = -1
                   \/ currentImageIndex = Len(images) - 1 /\ lightboxCall'.arg = 1
                   \/ InfoViewed)
                  => UNCHANGED <<images, currentImageIndex, lightboxHidden, viewingInfo,
                                 lightboxSrc, navDisplayNone, prevBtnHidden, nextBtnHidden>>]_vars

\* next was pressed at the last of several images, after the lightbox was
\* opened on it, and the index stayed
C22_Witness ==
    /\ Len(images) = MaxGallery
    /\ lightboxCall = Call("navigate", 1)
    /\ currentImageIndex = Len(images) - 1
    /\ ~lightboxHidden
    /\ lightboxSrc = Src("image", images[Len(images)])
    /\ nextBtnHidden


----------------------------------------------------------------------------
\* C23: a click on the bio strip is suppressed exactly when the gesture that
\* ended last before it moved more than dragThreshold and no click has been
\* dispatched since that gesture ended: a press and release that stayed
\* within the threshold leaves the next click alone, and one drag suppresses
\* at most one click.
C23_ClickSuppressedAfterDrag ==
    [][lastEvent'.type = "click"
         => (lastEvent'.prevented <=> (endedGesture = "moved" /\ ~clickedSince))]_vars


----------------------------------------------------------------------------
\* C24: the gate's overlay is never both hidden and expanded, and every
\* device check that finds a device that is not mobile leaves the overlay
\* hidden and collapsed.
C24_NeverHiddenAndExpanded ==
    /\ [](gateExpanded => ~overlayHidden)
    /\ []((gateOp.op \in {"initial check", "check"} /\ ~gateOp.found)
            => (overlayHidden /\ ~gateExpanded))

\* the overlay, displayed and expanded by a click on the image, was hidden
\* and collapsed by the debounced check after a resize
C24_Witness ==
    /\ gateOp = Checked(FALSE, FALSE, FALSE, TRUE)
    /\ overlayHidden
    /\ ~gateExpanded
    /\ ~resizeTimer

====
